---- MODULE Spec2Model ----
(***************************************************************************)
(* ContractableBOSS (sktime/classification/dictionary_based/_cboss.py):    *)
(* the randomised parameter search of _fit, the bounded accuracy-weighted  *)
(* ensemble it maintains, and the aggregation of _predict_proba and        *)
(* _get_train_probs.  Spec is the object under any sequence of calls,      *)
(* SpecTwin two runs side by side, SpecLive one _fit run to its end, and   *)
(* SpecAcc _individual_train_acc on its own.                               *)
(*                                                                         *)
(* Numbers.  Within one _fit every accuracy is correct / subsample_size    *)
(* with the same subsample_size, so an accuracy is kept as its numerator   *)
(* over subsample_size: the literal 1 (and 1.0) is subsample_size, the     *)
(* sentinel -1 is -subsample_size, 0 is 0.  A weight is kept as the record *)
(* [pow4, floor]: pow4 is the numerator of accuracy^4 over                 *)
(* subsample_size^4 and floor counts the constants 0.000000001 added, so   *)
(* sums of weights are exact.  Times are in seconds.                       *)
(* max_win_len_prop is kept in halves (2 is the default 1, 1 is 0.5).      *)
(***************************************************************************)
EXTENDS Integers, Sequences, FiniteSets, TLC

\* ------------------------------------------------------------- bounds
MaxSamples == 2
MaxEnsemble == 2
\* a candidate count above the size of a one-window grid
ManySamples == 12
\* the longest subsample given to _individual_train_acc on its own
MaxTrain == 3

\* ------------------------------------------------------------- inputs
\* label values a training set may use, and the training sets' shapes
Labels == {1, 2}
InstanceCounts == {3}
SeriesLengths == {2, 4}
MinWindows == {2, 4, 5}
WinLenProps == {2}
JobCounts == {1, 2}
Seeds == {0, 9}
\* time limits in minutes, and the elapsed times in seconds a clock may show
TimeLimits == {0, 1}
ClockReadings == {0, 60}
\* the series a pair of compared runs may be given
SeriesKinds == {0, 1}

\* ------------------------------------------------------------- state
VARIABLES
    \* the options kept on the object
    n_parameter_samples, max_ensemble_size, max_win_len_prop, min_window,
    time_limit_in_minutes, n_jobs, random_state,
    \* fitted state of the object
    classifiers, weights, weight_sum, n_classes, classes_, class_dictionary,
    n_estimators, series_length, n_instances,
    \* the running _fit call: its position, its arguments and its locals
    pc, X_shape, y, time_limit, max_window, win_inc, possible_parameters,
    num_classifiers, train_time, subsample_size, lowest_acc, lowest_acc_idx,
    rng,
    \* history: how the last _fit ended, the tuples evaluated by the running _fit, the rng draws and
    \* the base learners trained by it, and the highest full leave-one-out
    \* accuracy among its candidates that are not retained
    outcome, tried, draws, trained, discarded_max,
    \* the value returned by the last _predict_proba, _predict or
    \* _get_train_probs call
    ret,
    \* two runs compared: the series the data sets hold (an index that
    \* fixes which neighbour a base learner finds), and the record of the
    \* first run
    series, ref

optVars == <<n_parameter_samples, max_ensemble_size, max_win_len_prop,
             min_window, time_limit_in_minutes, n_jobs, random_state>>
objVars == <<classifiers, weights, weight_sum, n_classes, classes_,
             class_dictionary, n_estimators, series_length, n_instances>>
callVars == <<pc, X_shape, y, time_limit, max_window, win_inc,
              possible_parameters, num_classifiers, train_time,
              subsample_size, lowest_acc, lowest_acc_idx, rng>>
histVars == <<outcome, tried, draws, trained, discarded_max>>
twinVars == <<series, ref>>
vars == <<optVars, objVars, callVars, histVars, ret, twinVars>>

\* ------------------------------------------------------------ helpers
Min(a, b) == IF a < b THEN a ELSE b

RemoveAt(s, k) == SubSeq(s, 1, k - 1) \o SubSeq(s, k + 1, Len(s))

ReplaceAt(s, k, v) == [s EXCEPT ![k] = v]

Range(s) == {s[k] : k \in DOMAIN s}

\* the elements of a finite set of integers in ascending order
RECURSIVE SortedSeq(_)
SortedSeq(S) ==
    IF S = {} THEN <<>>
    ELSE LET m == CHOOSE x \in S : \A z \in S : x <= z
         IN <<m>> \o SortedSeq(S \ {m})

\* ------------------------------------------------------------ weights
Weight(p, f) == [pow4 |-> p, floor |-> f]

ZeroWeight == Weight(0, 0)

AddWeight(a, b) == Weight(a.pow4 + b.pow4, a.floor + b.floor)

\* np.sum that leaves out the last weight
RECURSIVE NpSumShort(_)
NpSumShort(ws) ==
    IF Len(ws) <= 1 THEN ZeroWeight
    ELSE AddWeight(Head(ws), NpSumShort(Tail(ws)))

\* np.sum(self.weights); 0.0 for an empty list
RECURSIVE NpSum(_)
NpSum(ws) ==
    IF ws = <<>> THEN ZeroWeight
    ELSE AddWeight(Head(ws), NpSum(Tail(ws)))

\* math.pow(accuracy, 4) if accuracy > 0 else 0.000000001
MemberWeight(accuracy) ==
    IF accuracy > 0
    THEN Weight(accuracy * accuracy * accuracy * accuracy, 0)
    ELSE Weight(0, 1)

\* ------------------------------------------------------ random numbers
\* check_random_state(seed): a generator whose draws are a function of the
\* seed alone; one step of a full-period congruential generator stands
\* for one draw of numpy's generator.
RngModulus == 16

SeedRng(seed) == seed % RngModulus

NextRng(s) == (5 * s + 3) % RngModulus

\* rng.randint(0, n) read off the state reached by the draw
RandInt(s, n) == (s * n) \div RngModulus

\* rng.choice(n_instances, size=subsample_size, replace=False): distinct
\* indices, drawn one by one from the indices still in the pool
RECURSIVE Choice(_, _, _)
Choice(s, pool, size) ==
    IF size = 0 \/ pool = <<>> THEN [sample |-> <<>>, rng |-> s]
    ELSE LET s1 == NextRng(s)
             k == RandInt(s1, Len(pool)) + 1
             rest == Choice(s1, RemoveAt(pool, k), size - 1)
         IN [sample |-> <<pool[k]>> \o rest.sample, rng |-> rest.rng]

\* ----------------------------------------------------- parameter grid
word_lengths == <<16, 14, 12, 10, 8>>

norm_options == <<TRUE, FALSE>>

\* range(lo, hi, step) as a list
RECURSIVE PyRange(_, _, _)
PyRange(lo, hi, step) ==
    IF lo >= hi THEN <<>> ELSE <<lo>> \o PyRange(lo + step, hi, step)

\* the innermost loop of the comprehension: one tuple per word length
RECURSIVE ForWords(_, _, _)
ForWords(normalise, win_size, words) ==
    IF words = <<>> THEN <<>>
    ELSE << <<win_size, Head(words), normalise>> >>
         \o ForWords(normalise, win_size, Tail(words))

RECURSIVE ForWindows(_, _)
ForWindows(normalise, wins) ==
    IF wins = <<>> THEN <<>>
    ELSE ForWords(normalise, Head(wins), word_lengths)
         \o ForWindows(normalise, Tail(wins))

RECURSIVE ForNorms(_, _)
ForNorms(norms, wins) ==
    IF norms = <<>> THEN <<>>
    ELSE ForWindows(Head(norms), wins) \o ForNorms(Tail(norms), wins)

\* _unique_parameters: normalise outermost, window next, word length inside
UniqueParameters(minw, maxw, inc) ==
    ForNorms(norm_options, PyRange(minw, maxw + 1, inc))

\* int(series_length * max_win_len_prop), max_win_len_prop in halves
MaxWindow(sl, prop) == (sl * prop) \div 2

\* int((max_window - min_window) / (series_length / 4)), raised to 1;
\* int() truncates towards zero
WinInc(sl, maxw, minw) ==
    LET num == 4 * (maxw - minw)
        q == IF num >= 0 THEN num \div sl ELSE -((-num) \div sl)
    IN IF q < 1 THEN 1 ELSE q

\* the configuration check without the + 1
WindowErrorStrict(minw, maxw) == minw > maxw

\* the configuration check that makes _fit raise ValueError
WindowError(minw, maxw) == minw > maxw + 1

\* -------------------------------------------------- accuracy estimate
\* joblib's Parallel(...)(delayed(boss._train_predict)(i) for i in
\* range(train_size)): the workers finish in the order `order`, and each
\* result is stored at the index of its task
RECURSIVE Collected(_, _, _)
Collected(boss, order, results) ==
    IF order = <<>> THEN results
    ELSE Collected(boss, Tail(order),
                   [results EXCEPT ![Head(order) + 1] = boss[Head(order) + 1]])

\* int(lowest_acc * train_size) for lowest_acc = lowestAcc / train_size:
\* the float product is lowestAcc or just below it, and int() then gives
\* one less (rounding = 1); 0 and 1 are exact
RequiredCorrect(lowestAcc, train_size, rounding) ==
    IF rounding = 1 /\ lowestAcc > 0 /\ lowestAcc < train_size
    THEN lowestAcc - 1 ELSE lowestAcc

\* the loop over the collected predictions without the abandonment test
RECURSIVE TrainAccCollectedNoAbandon(_, _, _, _, _, _)
TrainAccCollectedNoAbandon(c, ys, train_size, required_correct, i, correct) ==
    IF i >= train_size THEN correct
    ELSE IF c[i + 1] = ys[i + 1]
         THEN TrainAccCollectedNoAbandon(c, ys, train_size, required_correct,
                                         i + 1, correct + 1)
         ELSE TrainAccCollectedNoAbandon(c, ys, train_size, required_correct,
                                         i + 1, correct)

\* lines 380-384, n_jobs > 1: the loop over the collected predictions c
\* from instance i on; -1 is kept as -train_size
RECURSIVE TrainAccCollected(_, _, _, _, _, _)
TrainAccCollected(c, ys, train_size, required_correct, i, correct) ==
    IF i >= train_size THEN correct
    ELSE IF correct + train_size - i < required_correct THEN -train_size
    ELSE IF c[i + 1] = ys[i + 1]
         THEN TrainAccCollected(c, ys, train_size, required_correct,
                                i + 1, correct + 1)
         ELSE TrainAccCollected(c, ys, train_size, required_correct,
                                i + 1, correct)

\* the one-by-one loop with the abandonment test by <=
RECURSIVE TrainAccOneByOneEager(_, _, _, _, _, _)
TrainAccOneByOneEager(boss, ys, train_size, required_correct, i, correct) ==
    IF i >= train_size THEN correct
    ELSE IF correct + train_size - i <= required_correct THEN -train_size
    ELSE LET c == boss[i + 1]
         IN TrainAccOneByOneEager(boss, ys, train_size, required_correct,
                                  i + 1,
                                  IF c = ys[i + 1] THEN correct + 1
                                  ELSE correct)

\* lines 386-393, n_jobs <= 1: the loop that asks boss._train_predict(i)
\* for one prediction at a time, from instance i on
RECURSIVE TrainAccOneByOne(_, _, _, _, _, _)
TrainAccOneByOne(boss, ys, train_size, required_correct, i, correct) ==
    IF i >= train_size THEN correct
    ELSE IF correct + train_size - i < required_correct THEN -train_size
    ELSE LET c == boss[i + 1]
         IN TrainAccOneByOne(boss, ys, train_size, required_correct, i + 1,
                             IF c = ys[i + 1] THEN correct + 1 ELSE correct)

\* the number of boss._train_predict calls of the one-by-one loop
RECURSIVE RequestedOneByOne(_, _, _, _, _, _)
RequestedOneByOne(boss, ys, train_size, required_correct, i, correct) ==
    IF i >= train_size THEN 0
    ELSE IF correct + train_size - i < required_correct THEN 0
    ELSE 1 + RequestedOneByOne(boss, ys, train_size, required_correct, i + 1,
                               IF boss[i + 1] = ys[i + 1] THEN correct + 1
                               ELSE correct)

\* _individual_train_acc(boss, y, train_size, lowest_acc): boss holds the
\* leave-one-out predictions boss._train_predict(i) gives, order is the
\* order in which the workers of the parallel branch finish
IndividualTrainAcc(jobs, boss, order, ys, train_size, lowestAcc, rounding) ==
    LET required_correct == RequiredCorrect(lowestAcc, train_size, rounding)
    IN IF jobs > 1
       THEN LET c == Collected(boss, order, [i \in 1 .. train_size |-> 0])
            IN TrainAccCollected(c, ys, train_size, required_correct, 0, 0)
       ELSE TrainAccOneByOne(boss, ys, train_size, required_correct, 0, 0)

\* the number of leave-one-out predictions the call asks for
RequestedPredictions(jobs, boss, ys, train_size, lowestAcc, rounding) ==
    IF jobs > 1 THEN train_size
    ELSE RequestedOneByOne(boss, ys, train_size,
                           RequiredCorrect(lowestAcc, train_size, rounding),
                           0, 0)

\* correct / train_size over the whole subsample, no abandonment
FullAccuracy(c, ys) == Cardinality({k \in DOMAIN c : c[k] = ys[k]})

\* _worst_ensemble_acc as a scan from position c (0-based) on
RECURSIVE WorstScan(_, _, _, _)
WorstScan(cs, c, min_acc, min_acc_idx) ==
    IF c >= Len(cs) THEN <<min_acc, min_acc_idx>>
    ELSE IF cs[c + 1].accuracy < min_acc
         THEN WorstScan(cs, c + 1, cs[c + 1].accuracy, c)
         ELSE WorstScan(cs, c + 1, min_acc, min_acc_idx)

\* _worst_ensemble_acc with <= in place of <: the last minimum
RECURSIVE WorstScanLast(_, _, _, _)
WorstScanLast(cs, c, min_acc, min_acc_idx) ==
    IF c >= Len(cs) THEN <<min_acc, min_acc_idx>>
    ELSE IF cs[c + 1].accuracy <= min_acc
         THEN WorstScanLast(cs, c + 1, cs[c + 1].accuracy, c)
         ELSE WorstScanLast(cs, c + 1, min_acc, min_acc_idx)

WorstEnsembleAccLast(cs, one) == WorstScanLast(cs, 0, one, -1)

\* _worst_ensemble_acc with the comparison turned round
RECURSIVE WorstScanFlipped(_, _, _, _)
WorstScanFlipped(cs, c, min_acc, min_acc_idx) ==
    IF c >= Len(cs) THEN <<min_acc, min_acc_idx>>
    ELSE IF cs[c + 1].accuracy > min_acc
         THEN WorstScanFlipped(cs, c + 1, cs[c + 1].accuracy, c)
         ELSE WorstScanFlipped(cs, c + 1, min_acc, min_acc_idx)

WorstEnsembleAccFlipped(cs, one) == WorstScanFlipped(cs, 0, one, -1)

WorstEnsembleAcc(cs, one) == WorstScan(cs, 0, one, -1)

\* ---------------------------------------------------------- __init__
NoReturn == [op |-> "none"]

CtorArgs ==
    [n_parameter_samples : 0 .. MaxSamples \cup {ManySamples},
     max_ensemble_size : 0 .. MaxEnsemble,
     max_win_len_prop : WinLenProps,
     min_window : MinWindows,
     time_limit_in_minutes : TimeLimits,
     n_jobs : JobCounts,
     random_state : Seeds]

\* the object as __init__ leaves it; no _fit is running
Constructed(args) ==
    /\ n_parameter_samples = args.n_parameter_samples
    /\ max_ensemble_size = args.max_ensemble_size
    /\ max_win_len_prop = args.max_win_len_prop
    /\ time_limit_in_minutes = args.time_limit_in_minutes
    /\ n_jobs = args.n_jobs
    /\ random_state = args.random_state
    /\ classifiers = <<>>
    /\ weights = <<>>
    /\ weight_sum = ZeroWeight
    /\ n_classes = 0
    /\ classes_ = <<>>
    /\ class_dictionary = <<>>
    /\ n_estimators = 0
    /\ series_length = 0
    /\ n_instances = 0
    /\ min_window = args.min_window

NoCall ==
    /\ pc = "idle"
    /\ X_shape = <<0, 1, 0>>
    /\ y = <<>>
    /\ time_limit = 0
    /\ max_window = 0
    /\ win_inc = 0
    /\ possible_parameters = <<>>
    /\ num_classifiers = 0
    /\ train_time = 0
    /\ subsample_size = 0
    /\ lowest_acc = 0
    /\ lowest_acc_idx = 0
    /\ rng = 0
    /\ outcome = "new"
    /\ tried = <<>>
    /\ draws = 0
    /\ trained = 0
    /\ discarded_max = -1
    /\ ret = NoReturn

NoRef == [stage |-> "none"]

\* n_jobs only chooses the branch of _individual_train_acc, and the two
\* branches are run side by side in SpecAcc and SpecTwin; here the
\* objects are built with n_jobs = 1
Init ==
    /\ \E args \in CtorArgs : args.n_jobs = 1 /\ Constructed(args)
    /\ NoCall
    /\ series = 0
    /\ ref = NoRef

\* -------------------------------------------------------------- _fit
\* the label vectors of a training set of n instances, instances listed
\* by label
LabelVectors(n) ==
    {v \in [1 .. n -> Labels] : \A k \in 1 .. n - 1 : v[k] <= v[k + 1]}

\* class_dictionary after the loop of lines 186-187: entries of earlier
\* fits stay, the labels of this fit are (re)numbered
UpdatedDictionary(dict, classes) ==
    [v \in DOMAIN dict \cup Range(classes) |->
        IF v \in Range(classes)
        THEN (CHOOSE k \in DOMAIN classes : classes[k] = v) - 1
        ELSE dict[v]]

\* the candidate-count target left unchanged by a time limit
CountTargetKept(limit, samples) == samples

\* lines 218-219: a positive time limit sets n_parameter_samples to 0
CountTarget(limit, samples) == IF limit > 0 THEN 0 ELSE samples

\* lines 182-219: the set-up of _fit, up to the first test of the loop
\* condition, or up to the ValueError
FitStart(shape, labels) ==
    LET sl == shape[3]
        maxw == MaxWindow(sl, max_win_len_prop)
        inc == WinInc(sl, maxw, min_window)
        classes == SortedSeq(Range(labels))
        limit == time_limit_in_minutes * 60
        size == (shape[1] * 7) \div 10
    IN /\ pc = "idle"
       /\ X_shape' = shape
       /\ y' = labels
       /\ time_limit' = limit
       /\ n_instances' = shape[1]
       /\ series_length' = sl
       /\ n_classes' = Len(classes)
       /\ classes_' = classes
       /\ class_dictionary' = UpdatedDictionary(class_dictionary, classes)
       /\ classifiers' = <<>>
       /\ weights' = <<>>
       /\ max_window' = maxw
       /\ win_inc' = inc
       /\ tried' = <<>>
       /\ draws' = 0
       /\ trained' = 0
       /\ discarded_max' = -1
       /\ ret' = NoReturn
       /\ IF WindowError(min_window, maxw)
          THEN /\ pc' = "idle"
               /\ outcome' = "raised"
               /\ possible_parameters' = <<>>
               /\ num_classifiers' = 0
               /\ train_time' = 0
               /\ subsample_size' = 0
               /\ lowest_acc' = 0
               /\ lowest_acc_idx' = 0
               /\ rng' = 0
               /\ UNCHANGED n_parameter_samples
          ELSE /\ pc' = "loop"
               /\ outcome' = "running"
               /\ possible_parameters' = UniqueParameters(min_window, maxw, inc)
               /\ num_classifiers' = 0
               /\ train_time' = 0
               /\ subsample_size' = size
               /\ lowest_acc' = size
               /\ lowest_acc_idx' = 0
               /\ rng' = SeedRng(random_state)
               /\ n_parameter_samples' = CountTarget(limit, n_parameter_samples)
       /\ UNCHANGED <<max_ensemble_size, max_win_len_prop, min_window,
                      time_limit_in_minutes, n_jobs, random_state,
                      weight_sum, n_estimators>>

\* the loop condition with the candidate count compared by <=
LoopConditionInclusive ==
    /\ train_time < time_limit \/ num_classifiers <= n_parameter_samples
    /\ Len(possible_parameters) > 0

\* the loop condition with the time compared by <=
LoopConditionTimeInclusive ==
    /\ train_time <= time_limit \/ num_classifiers < n_parameter_samples
    /\ Len(possible_parameters) > 0

\* the loop condition of lines 221-223
LoopCondition ==
    /\ train_time < time_limit \/ num_classifiers < n_parameter_samples
    /\ Len(possible_parameters) > 0

\* the labels y[subsample]
Subsampled(labels, subsample) ==
    [k \in DOMAIN subsample |-> labels[subsample[k] + 1]]

\* a base learner answers with labels of its own training set
LooPredictions(ys) == [DOMAIN ys -> Range(ys)]

\* a number fixed by the series, the parameters and a training instance
Mix(parameters, i) ==
    parameters[1] + parameters[2] \div 2
        + (IF parameters[3] THEN 1 ELSE 0) + i + series

\* a 1-nearest-neighbour learner: the leave-one-out prediction for the
\* instance at position j is the label of another instance of the
\* subsample, which one being fixed by the series and the parameters
NearestOther(parameters, subsample, j) ==
    LET others == SortedSeq(DOMAIN subsample \ {j})
    IN IF others = <<>> THEN j
       ELSE others[(Mix(parameters, subsample[j]) % Len(others)) + 1]

FixedLearner(parameters, subsample) ==
    {[j \in DOMAIN subsample |->
         y[subsample[NearestOther(parameters, subsample, j)] + 1]]}

\* its prediction for the unseen instance: the label of its nearest
\* training instance
FixedAnswer(boss) ==
    y[boss.subsample[(Mix(boss.parameters, 0) % Len(boss.subsample)) + 1] + 1]

\* the leave-one-out predictions a trained base learner may give: any
\* labels of its training subsample, or those of the fixed learner
LearnerPredictions(kind, parameters, subsample) ==
    IF kind = "fixed" THEN FixedLearner(parameters, subsample)
    ELSE LooPredictions(Subsampled(y, subsample))

\* the tuple read at the drawn index and left in the list
PopKeep(params, k) == params

\* possible_parameters.pop(rng.randint(0, len(possible_parameters))):
\* the list that is left
PopRemaining(params, k) == RemoveAt(params, k + 1)

\* the warm-up test with <= in place of <
OfferOverfull(cs, ws, boss, weight, num, low, low_idx, one) ==
    IF num <= max_ensemble_size
    THEN <<Append(cs, boss), Append(ws, weight),
           IF boss.accuracy < low THEN boss.accuracy ELSE low,
           IF boss.accuracy < low THEN num ELSE low_idx>>
    ELSE <<cs, ws, low, low_idx>>

\* a replacement without the scan of line 262
OfferNoRescan(cs, ws, boss, weight, num, low, low_idx, one) ==
    IF num < max_ensemble_size
    THEN <<Append(cs, boss), Append(ws, weight),
           IF boss.accuracy < low THEN boss.accuracy ELSE low,
           IF boss.accuracy < low THEN num ELSE low_idx>>
    ELSE IF boss.accuracy > low
         THEN LET at == IF low_idx < 0 THEN Len(cs) + low_idx + 1
                        ELSE low_idx + 1
              IN <<ReplaceAt(cs, at, boss), ReplaceAt(ws, at, weight),
                   low, low_idx>>
         ELSE <<cs, ws, low, low_idx>>

\* a replacement that stores the member and leaves the old weight
OfferStaleWeight(cs, ws, boss, weight, num, low, low_idx, one) ==
    IF num < max_ensemble_size
    THEN <<Append(cs, boss), Append(ws, weight),
           IF boss.accuracy < low THEN boss.accuracy ELSE low,
           IF boss.accuracy < low THEN num ELSE low_idx>>
    ELSE IF boss.accuracy > low
         THEN LET at == IF low_idx < 0 THEN Len(cs) + low_idx + 1
                        ELSE low_idx + 1
                  cs2 == ReplaceAt(cs, at, boss)
                  worst == WorstEnsembleAcc(cs2, one)
              IN <<cs2, ws, worst[1], worst[2]>>
         ELSE <<cs, ws, low, low_idx>>

\* lines 253-262: the ensemble after a candidate is offered to it, as
\* <<classifiers, weights, lowest_acc, lowest_acc_idx>>
Offer(cs, ws, boss, weight, num, low, low_idx, one) ==
    IF num < max_ensemble_size
    THEN <<Append(cs, boss), Append(ws, weight),
           IF boss.accuracy < low THEN boss.accuracy ELSE low,
           IF boss.accuracy < low THEN num ELSE low_idx>>
    ELSE IF boss.accuracy > low
         THEN LET at == IF low_idx < 0 THEN Len(cs) + low_idx + 1
                        ELSE low_idx + 1
                  cs2 == ReplaceAt(cs, at, boss)
                  worst == WorstEnsembleAcc(cs2, one)
              IN <<cs2, ReplaceAt(ws, at, weight), worst[1], worst[2]>>
         ELSE <<cs, ws, low, low_idx>>

\* the base learner scored against lowest_acc during the warm-up too
CandidateThresholdAlways(parameters, subsample, c) ==
    [parameters |-> parameters,
     subsample |-> subsample,
     train_preds |-> c,
     accuracy |-> IndividualTrainAcc(
                      n_jobs, c, PyRange(0, subsample_size, 1),
                      Subsampled(y, subsample), subsample_size,
                      lowest_acc, 0)]

\* the trained and scored base learner of lines 232-247
Candidate(parameters, subsample, c) ==
    [parameters |-> parameters,
     subsample |-> subsample,
     train_preds |-> c,
     \* the value does not depend on the order the workers finish in, and
     \* int(lowest_acc * subsample_size) is exact for the subsample sizes
     \* of InstanceCounts
     accuracy |-> IndividualTrainAcc(
                      n_jobs, c, PyRange(0, subsample_size, 1),
                      Subsampled(y, subsample), subsample_size,
                      IF num_classifiers < max_ensemble_size
                      THEN 0 ELSE lowest_acc, 0)]

\* correct / subsample_size of a trained learner over its whole subsample
FullOf(boss) == FullAccuracy(boss.train_preds, Subsampled(y, boss.subsample))

MaxOf(S) == CHOOSE m \in S : \A z \in S : z <= m

\* the highest full accuracy among the candidates that are not retained,
\* once boss has been offered and the ensemble is cs
DiscardedMax(boss, cs) ==
    LET kept == {cs[p].parameters : p \in DOMAIN cs}
        out == {m \in Range(classifiers) \cup {boss} : m.parameters \notin kept}
    IN MaxOf({discarded_max} \cup {FullOf(m) : m \in out})

\* one iteration of the loop, lines 224-265: a tuple is popped, a subsample
\* drawn, the base learner trained (its leave-one-out predictions are
\* one of LearnerPredictions(kind, parameters, subsample)), scored and
\* offered to the ensemble, and the clock read
FitStep(kind) ==
    /\ pc = "loop"
    /\ LoopCondition
    \* time.time() - start_time: a reading not before the previous one
    /\ \E now \in ClockReadings,
          k \in {RandInt(NextRng(rng), Len(possible_parameters))},
          drawn \in {Choice(NextRng(rng), [j \in 1 .. n_instances |-> j - 1],
                            subsample_size)} :
        \E c \in LearnerPredictions(kind, possible_parameters[k + 1],
                                    drawn.sample) :
          \E boss \in {Candidate(possible_parameters[k + 1], drawn.sample, c)} :
            \E after \in {Offer(classifiers, weights, boss,
                                MemberWeight(boss.accuracy), num_classifiers,
                                lowest_acc, lowest_acc_idx, subsample_size)} :
               /\ now >= train_time
               /\ possible_parameters' = PopRemaining(possible_parameters, k)
               /\ rng' = drawn.rng
               /\ classifiers' = after[1]
               /\ weights' = after[2]
               /\ lowest_acc' = after[3]
               /\ lowest_acc_idx' = after[4]
               /\ num_classifiers' = num_classifiers + 1
               /\ train_time' = now
               /\ tried' = Append(tried, boss.parameters)
               /\ draws' = draws + 2
               /\ trained' = trained + 1
               /\ discarded_max' = DiscardedMax(boss, after[1])
    /\ UNCHANGED <<optVars, weight_sum, n_classes, classes_, class_dictionary,
                   n_estimators, series_length, n_instances, pc, X_shape, y,
                   time_limit, max_window, win_inc, subsample_size, outcome,
                   ret>>

FitIter == FitStep("any") /\ UNCHANGED twinVars

\* lines 267-269
FitReturn ==
    /\ pc = "loop"
    /\ ~LoopCondition
    /\ n_estimators' = Len(classifiers)
    /\ weight_sum' = NpSum(weights)
    /\ pc' = "idle"
    /\ outcome' = "fitted"
    /\ UNCHANGED <<optVars, classifiers, weights, n_classes, classes_,
                   class_dictionary, series_length, n_instances, X_shape, y,
                   time_limit, max_window, win_inc, possible_parameters,
                   num_classifiers, train_time, subsample_size, lowest_acc,
                   lowest_acc_idx, rng, tried, draws, trained, discarded_max,
                   ret>>

FitEnd == FitReturn /\ UNCHANGED twinVars

\* ----------------------------------------------------- _predict_proba
\* = in place of +=
AddToBucketOverwrite(sums, class_index, weight) ==
    LET at == IF class_index < 0 THEN Len(sums) + class_index + 1
              ELSE class_index + 1
    IN [sums EXCEPT ![at] = weight]

\* sums[class_index] += weight, class_index counted from 0; like numpy, a
\* negative index counts from the end
AddToBucket(sums, class_index, weight) ==
    LET at == IF class_index < 0 THEN Len(sums) + class_index + 1
              ELSE class_index + 1
    IN [sums EXCEPT ![at] = AddWeight(@, weight)]

\* the labels a retained base learner can answer with: those it was
\* trained on
AnswersOf(boss) == Range(Subsampled(y, boss.subsample))

\* lines 306-309 for one instance: member n adds weights[n] to the bucket
\* of its prediction preds[n]
RECURSIVE Accumulate(_, _, _)
Accumulate(sums, preds, n) ==
    IF n > Len(preds) THEN sums
    ELSE Accumulate(AddToBucket(sums, class_dictionary[preds[n]], weights[n]),
                    preds, n + 1)

\* what the retained members may answer for one unseen instance
MemberAnswers ==
    {preds \in [DOMAIN classifiers -> Labels] :
        \A n \in DOMAIN classifiers : preds[n] \in AnswersOf(classifiers[n])}

\* _predict_proba for an X of one instance, preds[n] being the label
\* classifiers[n].predict(X) returns: the row is sums / divisor
ProbaRow(preds) ==
    [preds |-> preds,
     sums |-> Accumulate([c \in 1 .. n_classes |-> ZeroWeight], preds, 1),
     divisor |-> weight_sum]

PredictProba ==
    /\ pc = "idle"
    /\ \E preds \in MemberAnswers :
          ret' = [op |-> "predict_proba", row |-> ProbaRow(preds)]
    /\ UNCHANGED <<optVars, objVars, callVars, histVars, twinVars>>

\* ---------------------------------------------------------- _predict
\* the order of two weights: a floor constant is smaller than any
\* difference between sums of fourth powers of accuracies
WeightLess(a, b) ==
    \/ a.pow4 < b.pow4
    \/ a.pow4 = b.pow4 /\ a.floor < b.floor

\* np.flatnonzero(prob == prob.max()) for prob = sums / divisor, as class
\* indices counted from 0 and ascending; a zero divisor makes every entry
\* nan, which equals nothing
MaxBuckets(row) ==
    IF row.divisor = ZeroWeight THEN <<>>
    ELSE SortedSeq({c - 1 : c \in {d \in DOMAIN row.sums :
                       \A e \in DOMAIN row.sums :
                           ~WeightLess(row.sums[d], row.sums[e])}})

\* lines 284-290 for an X of one instance: the label, or the ValueError of
\* an empty prob (max) or an empty tie list (choice)
PredictLabel(row) ==
    LET ties == MaxBuckets(row)
    IN IF Len(row.sums) = 0 \/ ties = <<>> THEN "ValueError"
       ELSE classes_[ties[RandInt(NextRng(SeedRng(random_state)),
                                  Len(ties)) + 1] + 1]

PredictWith(preds) ==
    /\ pc = "idle"
    /\ ret' = [op |-> "predict", row |-> ProbaRow(preds),
               label |-> PredictLabel(ProbaRow(preds))]
    /\ UNCHANGED <<optVars, objVars, callVars, histVars>>

\* ---------------------------------------------------- _get_train_probs
\* the members whose subsample holds instance i, in ensemble order, each
\* with the first position of i in its subsample (np.where(...)[0][0])
RECURSIVE ClfIdx(_, _)
ClfIdx(i, n) ==
    IF n > Len(classifiers) THEN <<>>
    ELSE LET hits == {k \in DOMAIN classifiers[n].subsample :
                         classifiers[n].subsample[k] = i}
         IN (IF hits = {} THEN <<>>
             ELSE << <<n, CHOOSE k \in hits : \A z \in hits : k <= z>> >>)
            \o ClfIdx(i, n + 1)

\* class_dictionary.get(pred, -1)
DictGet(pred) ==
    IF pred \in DOMAIN class_dictionary THEN class_dictionary[pred] ELSE -1

\* lines 356-358 from entry n of clf_idx on, as <<sums, divisor>>
RECURSIVE TrainAccumulate(_, _, _, _)
TrainAccumulate(clf_idx, sums, divisor, n) ==
    IF n > Len(clf_idx) THEN <<sums, divisor>>
    ELSE LET member == clf_idx[n][1]
             pred == classifiers[member].train_preds[clf_idx[n][2]]
         IN TrainAccumulate(clf_idx,
                            AddToBucket(sums, DictGet(pred), weights[member]),
                            AddWeight(divisor, weights[member]), n + 1)

\* the row divided by the weight sum of the whole ensemble
TrainProbsRowWhole(i) ==
    LET clf_idx == ClfIdx(i, 1)
        acc == TrainAccumulate(clf_idx, [c \in 1 .. n_classes |-> ZeroWeight],
                               ZeroWeight, 1)
    IN [uniform |-> weight_sum = ZeroWeight,
        members |-> [n \in DOMAIN clf_idx |-> clf_idx[n][1]],
        sums |-> acc[1],
        divisor |-> weight_sum]

\* the row of results for instance i, lines 340-364
TrainProbsRow(i) ==
    LET clf_idx == ClfIdx(i, 1)
        acc == TrainAccumulate(clf_idx, [c \in 1 .. n_classes |-> ZeroWeight],
                               ZeroWeight, 1)
    IN [uniform |-> acc[2] = ZeroWeight,
        members |-> [n \in DOMAIN clf_idx |-> clf_idx[n][1]],
        sums |-> acc[1],
        divisor |-> acc[2]]

\* _get_train_probs(X) for the training X: one row per instance
GetTrainProbs ==
    /\ pc = "idle"
    /\ outcome = "fitted"
    /\ ret' = [op |-> "train_probs",
               rows |-> [i \in 1 .. n_instances |-> TrainProbsRow(i - 1)]]
    /\ UNCHANGED <<optVars, objVars, callVars, histVars, twinVars>>

Fit ==
    /\ \E n \in InstanceCounts, sl \in SeriesLengths :
          \E labels \in LabelVectors(n) : FitStart(<<n, 1, sl>>, labels)
    /\ UNCHANGED twinVars

Next == Fit \/ FitIter \/ FitEnd \/ PredictProba \/ GetTrainProbs

Spec == Init /\ [][Next]_vars


\* ------------------------------------------------- two independent runs
\* A second specification: an object is built, fitted and asked for a
\* prediction; then a second object is built with the same options and
\* random_state and is fitted on the same data and asked for the same
\* prediction.  Data and seed being equal, the base learners are the same
\* function of (parameters, subsample) in both runs; only the clock
\* readings may differ.
Options ==
    [n_parameter_samples |-> n_parameter_samples,
     max_ensemble_size |-> max_ensemble_size,
     max_win_len_prop |-> max_win_len_prop,
     min_window |-> min_window,
     time_limit_in_minutes |-> time_limit_in_minutes,
     n_jobs |-> n_jobs,
     random_state |-> random_state]

\* what a run leaves: the ensemble and the prediction
RunResult ==
    [outcome |-> outcome, classifiers |-> classifiers, weights |-> weights,
     weight_sum |-> weight_sum, n_estimators |-> n_estimators, ret |-> ret]

RunOver == pc = "idle" /\ (ret.op = "predict" \/ outcome = "raised")

TwinInit ==
    /\ \E args \in CtorArgs : Constructed(args)
    /\ NoCall
    /\ series \in SeriesKinds
    /\ ref = NoRef

TwinFirstFit ==
    /\ ref.stage = "none"
    /\ outcome = "new"
    /\ \E n \in InstanceCounts, sl \in SeriesLengths :
          \E labels \in LabelVectors(n) :
              /\ FitStart(<<n, 1, sl>>, labels)
              /\ ref' = [stage |-> "first", options |-> Options,
                         shape |-> <<n, 1, sl>>, labels |-> labels]
    /\ UNCHANGED series

TwinIter == FitStep("fixed") /\ UNCHANGED twinVars

TwinEnd == FitReturn /\ UNCHANGED twinVars

TwinPredict ==
    /\ outcome = "fitted"
    /\ ret.op = "none"
    /\ PredictWith([n \in DOMAIN classifiers |-> FixedAnswer(classifiers[n])])
    /\ UNCHANGED twinVars

\* __init__ on a new object: the state that Constructed and NoCall
\* describe
Construct(args) ==
    /\ n_parameter_samples' = args.n_parameter_samples
    /\ max_ensemble_size' = args.max_ensemble_size
    /\ max_win_len_prop' = args.max_win_len_prop
    /\ time_limit_in_minutes' = args.time_limit_in_minutes
    /\ n_jobs' = args.n_jobs
    /\ random_state' = args.random_state
    /\ classifiers' = <<>>
    /\ weights' = <<>>
    /\ weight_sum' = ZeroWeight
    /\ n_classes' = 0
    /\ classes_' = <<>>
    /\ class_dictionary' = <<>>
    /\ n_estimators' = 0
    /\ series_length' = 0
    /\ n_instances' = 0
    /\ min_window' = args.min_window
    /\ pc' = "idle"
    /\ X_shape' = <<0, 1, 0>>
    /\ y' = <<>>
    /\ time_limit' = 0
    /\ max_window' = 0
    /\ win_inc' = 0
    /\ possible_parameters' = <<>>
    /\ num_classifiers' = 0
    /\ train_time' = 0
    /\ subsample_size' = 0
    /\ lowest_acc' = 0
    /\ lowest_acc_idx' = 0
    /\ rng' = 0
    /\ outcome' = "new"
    /\ tried' = <<>>
    /\ draws' = 0
    /\ trained' = 0
    /\ discarded_max' = -1
    /\ ret' = NoReturn

\* the first run is over: its result is kept and a new object is built
\* from the same constructor arguments
TwinRebuild ==
    /\ ref.stage = "first"
    /\ RunOver
    /\ ref' = [stage |-> "rebuilt", options |-> ref.options,
               shape |-> ref.shape, labels |-> ref.labels,
               result |-> RunResult]
    /\ Construct(ref.options)
    /\ UNCHANGED series

TwinSecondFit ==
    /\ ref.stage = "rebuilt"
    /\ FitStart(ref.shape, ref.labels)
    /\ ref' = [ref EXCEPT !.stage = "second"]
    /\ UNCHANGED series

TwinNext ==
    \/ TwinFirstFit \/ TwinIter \/ TwinEnd \/ TwinPredict \/ TwinRebuild
    \/ TwinSecondFit

SpecTwin == TwinInit /\ [][TwinNext]_vars

\* ------------------------------------------------- _fit runs to its end
\* A fourth specification, for what _fit eventually does: one _fit call
\* on a new object, and a running _fit goes on: each base-learner fit and
\* accuracy estimate returns, so an iteration that is started is finished
\* and the loop test is taken again.
FirstFit == outcome = "new" /\ Fit

FitNext == FirstFit \/ FitIter \/ FitEnd

SpecLive ==
    Init /\ [][FitNext]_vars /\ WF_vars(FitIter) /\ WF_vars(FitEnd)

\* ------------------------------------- _individual_train_acc on its own
\* A third specification: _individual_train_acc is called on an object as
\* __init__ leaves it, with any base learner (its leave-one-out
\* predictions), label vector, train_size and lowest_acc, the workers of
\* the parallel branch finishing in any order.
Orders(n) ==
    {o \in [1 .. n -> 0 .. n - 1] :
        \A a, b \in 1 .. n : a # b => o[a] # o[b]}

\* the arguments of one call
TrainAccCalls ==
    UNION {[op : {"train_acc_call"},
            boss : [1 .. train_size -> Labels],
            ys : [1 .. train_size -> Labels],
            train_size : {train_size},
            lowest_acc : 0 .. train_size,
            rounding : {0, 1},
            order : Orders(train_size)] : train_size \in 1 .. MaxTrain}

AccInit ==
    /\ \E args \in CtorArgs :
          /\ args.n_parameter_samples = 0
          /\ args.max_ensemble_size = 0
          /\ args.min_window = 2
          /\ args.time_limit_in_minutes = 0
          /\ args.random_state = 0
          /\ Constructed(args)
    /\ pc = "idle"
    /\ X_shape = <<0, 1, 0>>
    /\ y = <<>>
    /\ time_limit = 0
    /\ max_window = 0
    /\ win_inc = 0
    /\ possible_parameters = <<>>
    /\ num_classifiers = 0
    /\ train_time = 0
    /\ subsample_size = 0
    /\ lowest_acc = 0
    /\ lowest_acc_idx = 0
    /\ rng = 0
    /\ outcome = "new"
    /\ tried = <<>>
    /\ draws = 0
    /\ trained = 0
    /\ discarded_max = -1
    /\ ret \in TrainAccCalls
    /\ series = 0
    /\ ref = NoRef

TrainAcc ==
    /\ pc = "idle"
    /\ ret.op = "train_acc_call"
    /\ ret' = [op |-> "train_acc", boss |-> ret.boss, ys |-> ret.ys,
               train_size |-> ret.train_size, lowest_acc |-> ret.lowest_acc,
               rounding |-> ret.rounding, order |-> ret.order,
               value |-> IndividualTrainAcc(n_jobs, ret.boss, ret.order,
                                            ret.ys, ret.train_size,
                                            ret.lowest_acc, ret.rounding),
               requested |-> RequestedPredictions(n_jobs, ret.boss, ret.ys,
                                                  ret.train_size,
                                                  ret.lowest_acc,
                                                  ret.rounding)]
    /\ UNCHANGED <<optVars, objVars, callVars, histVars, twinVars>>

AccNext == TrainAcc

SpecAcc == AccInit /\ [][AccNext]_vars

\* ================================================================ claims
\* the sum of the weights at the positions in S, position by position
RECURSIVE WeightOver(_, _)
WeightOver(ws, S) ==
    IF S = {} THEN [pow4 |-> 0, floor |-> 0]
    ELSE LET p == CHOOSE q \in S : TRUE
             rest == WeightOver(ws, S \ {p})
         IN [pow4 |-> ws[p].pow4 + rest.pow4, floor |-> ws[p].floor + rest.floor]

\* the number of values of range(lo, hi, step), in closed form
WindowCount(lo, hi, step) ==
    IF hi > lo THEN (hi - lo + step - 1) \div step ELSE 0

\* the size of the grid of the current configuration and series length
GridSize == 2 * 5 * WindowCount(min_window, max_window + 1, win_inc)

NoDuplicates(s) == Cardinality(Range(s)) = Len(s)

\* C1: at every point of _fit and after it the ensemble holds at most
\* max_ensemble_size members, no more members than candidates evaluated so
\* far, no more candidates are evaluated than the grid holds, and weights
\* is as long as classifiers.
C1_EnsembleBounded ==
    /\ Len(classifiers) <= max_ensemble_size
    /\ Len(classifiers) <= num_classifiers
    /\ num_classifiers = Len(tried)
    /\ num_classifiers <= GridSize
    /\ Len(weights) = Len(classifiers)

C1_Witness ==
    /\ pc = "loop"
    /\ max_ensemble_size = 2
    /\ Len(classifiers) = 2
    /\ num_classifiers = 4
    /\ Len(possible_parameters) > 0

\* C2: when _fit has finished, the ensemble holds min(evaluated,
\* max_ensemble_size) members and no evaluated candidate outside it has a
\* full leave-one-out accuracy above that of a retained member.
C2_TopRetained ==
    outcome = "fitted" =>
        /\ Len(classifiers) = Min(num_classifiers, max_ensemble_size)
        /\ \A p \in DOMAIN classifiers :
               discarded_max <= classifiers[p].accuracy

C2_Witness ==
    /\ outcome = "fitted"
    /\ max_ensemble_size = 2
    /\ num_classifiers >= 4
    /\ discarded_max = 1
    /\ \A p \in DOMAIN classifiers : classifiers[p].accuracy = 2
    /\ \E p \in DOMAIN classifiers :
           classifiers[p].parameters \notin {tried[1], tried[2]}

\* C3: with time_limit_in_minutes = 0 a finished _fit has evaluated
\* exactly min(n_parameter_samples, |grid|) candidates, whatever the clock
\* read.
C3_CountMode ==
    (outcome = "fitted" /\ time_limit_in_minutes = 0) =>
        num_classifiers = Min(n_parameter_samples, GridSize)

C3_Witness ==
    /\ outcome = "fitted"
    /\ time_limit_in_minutes = 0
    /\ n_parameter_samples = ManySamples
    /\ num_classifiers = 10
    /\ train_time > 0

\* C4: within one _fit no parameter tuple is evaluated twice: the tuples
\* evaluated so far are pairwise different, none of them is still in the
\* remaining grid, and the remaining grid holds no tuple twice.
C4_NoRepeatedCandidate ==
    /\ NoDuplicates(tried)
    /\ NoDuplicates(possible_parameters)
    /\ Range(tried) \cap Range(possible_parameters) = {}

C4_Witness ==
    /\ pc = "loop"
    /\ Len(tried) = 5
    /\ Len(possible_parameters) = 15

\* C5 as stated: with one random_state, two independent fit+predict runs
\* on the same data and configuration leave the same ensemble and the same
\* prediction, whatever the clock read in either run.
C5_SameRuns ==
    (ref.stage = "second" /\ RunOver) => RunResult = ref.result

\* C5 as amended: they do when time_limit_in_minutes = 0.
C5_SameRunsCountMode ==
    (ref.stage = "second" /\ RunOver /\ time_limit_in_minutes = 0) =>
        RunResult = ref.result

C5_Witness ==
    /\ ref.stage = "second"
    /\ RunOver
    /\ time_limit_in_minutes = 0
    /\ train_time > 0
    /\ ref.result.ret.op = "predict"
    /\ Len(classifiers) = 2
    /\ num_classifiers >= 3
    /\ \E p \in DOMAIN classifiers :
           classifiers[p].parameters \notin {tried[1], tried[2]}
    /\ ret.label \in Labels

\* C6 as stated: in every reachable state weight_sum is the sum of the
\* current weights.
C6_WeightSumAlways == weight_sum = WeightOver(weights, DOMAIN weights)

\* C6 as amended: weight_sum is the sum of the current weights after the
\* constructor and after every _fit that returned; a capacity-one ensemble
\* then has the weight of its sole member as weight_sum.
C6_WeightSumAfterFit ==
    (pc = "idle" /\ outcome \in {"new", "fitted"}) =>
        /\ weight_sum = WeightOver(weights, DOMAIN weights)
        /\ Len(classifiers) = 1 =>
               weight_sum = [pow4 |-> classifiers[1].accuracy ^ 4, floor |-> 0]
               \/ (classifiers[1].accuracy = 0
                   /\ weight_sum = [pow4 |-> 0, floor |-> 1])

\* a full ensemble of capacity 1 held accuracy 1/2, a candidate of
\* accuracy 1 replaced it, and _fit has returned
C6_Witness ==
    /\ outcome = "fitted"
    /\ max_ensemble_size = 1
    /\ Len(classifiers) = 1
    /\ classifiers[1].accuracy = 2
    /\ classifiers[1].parameters # tried[1]
    /\ discarded_max = 1
    /\ weight_sum = [pow4 |-> 16, floor |-> 0]

\* C7: after a _fit that returned, the class buckets _predict_proba fills
\* for an instance add up to weight_sum, every member's weight being in
\* the bucket of the class it predicted, so the row sums to 1 when
\* weight_sum is not zero.
C7_BucketsSumToWeightSum ==
    (outcome = "fitted" /\ ret.op = "predict_proba") =>
        /\ ret.row.divisor = weight_sum
        /\ WeightOver(ret.row.sums, DOMAIN ret.row.sums) = weight_sum
        /\ \A c \in DOMAIN ret.row.sums :
               ret.row.sums[c] =
                   WeightOver(weights, {n \in DOMAIN classifiers :
                                          ret.row.preds[n] = classes_[c]})

C7_Witness ==
    /\ outcome = "fitted"
    /\ ret.op = "predict_proba"
    /\ Len(classifiers) = 2
    /\ n_classes = 2
    /\ \A c \in DOMAIN ret.row.sums : ret.row.sums[c] # [pow4 |-> 0, floor |-> 0]

\* C8: _fit raises the configuration error exactly when min_window >
\* floor(series_length * max_win_len_prop) + 1, and then nothing was drawn
\* from the rng, no tuple taken from the grid and no base learner trained.
C8_WindowErrorFirst ==
    LET maxw == (series_length * max_win_len_prop) \div 2
    IN /\ outcome = "raised" =>
              /\ min_window > maxw + 1
              /\ draws = 0 /\ trained = 0 /\ tried = <<>>
              /\ classifiers = <<>>
       /\ outcome \in {"running", "fitted"} => min_window <= maxw + 1

C8_Witness ==
    /\ outcome = "raised"
    /\ series_length = 2
    /\ min_window = 4
    /\ weight_sum # [pow4 |-> 0, floor |-> 0]

\* the members whose subsample holds training instance i (counted from 0)
Holders(i) ==
    {n \in DOMAIN classifiers : i \in Range(classifiers[n].subsample)}

\* the leave-one-out prediction of member n for training instance i
LooAt(n, i) ==
    classifiers[n].train_preds[
        CHOOSE k \in DOMAIN classifiers[n].subsample :
            /\ classifiers[n].subsample[k] = i
            /\ \A z \in 1 .. k - 1 : classifiers[n].subsample[z] # i]

\* C9: a row of _get_train_probs is uniform exactly when no retained
\* member's subsample holds the instance; otherwise it is built from
\* exactly the members that hold it, each adding its weight to the class of
\* its leave-one-out prediction, over the sum of those members' weights.
C9_TrainProbs ==
    ret.op = "train_probs" =>
        \A i \in DOMAIN ret.rows :
            LET row == ret.rows[i]
            IN /\ row.uniform <=> Holders(i - 1) = {}
               /\ Range(row.members) = Holders(i - 1)
               /\ row.divisor = WeightOver(weights, Holders(i - 1))
               /\ WeightOver(row.sums, DOMAIN row.sums) = row.divisor
               /\ \A c \in DOMAIN row.sums :
                      row.sums[c] =
                          WeightOver(weights,
                                     {n \in Holders(i - 1) :
                                         LooAt(n, i - 1) = classes_[c]})

C9_Witness ==
    /\ ret.op = "train_probs"
    /\ Len(classifiers) = 2
    /\ \E i \in DOMAIN ret.rows : ret.rows[i].uniform
    /\ \E i \in DOMAIN ret.rows :
           /\ Len(ret.rows[i].members) = 2
           /\ \A c \in DOMAIN ret.rows[i].sums :
                  ret.rows[i].sums[c] # [pow4 |-> 0, floor |-> 0]

\* C10: at every position the stored weight is the weight of the member
\* stored there, accuracy^4 for a positive accuracy and the floor
\* 0.000000001 otherwise, and it is positive.
C10_WeightsMatchMembers ==
    /\ DOMAIN weights = DOMAIN classifiers
    /\ \A p \in DOMAIN classifiers :
           /\ weights[p] =
                  IF classifiers[p].accuracy > 0
                  THEN [pow4 |-> classifiers[p].accuracy ^ 4, floor |-> 0]
                  ELSE [pow4 |-> 0, floor |-> 1]
           /\ weights[p].pow4 > 0 \/ weights[p].floor > 0

C10_Witness ==
    /\ pc = "loop"
    /\ max_ensemble_size = 2
    /\ Len(classifiers) = 2
    /\ classifiers[1].parameters \notin {tried[1], tried[2]}
    /\ classifiers[2].accuracy = 0
    /\ weights[2] = [pow4 |-> 0, floor |-> 1]

\* C11: in a _fit with a positive time limit the candidate-count target is
\* 0; the elapsed time is read only at the end of an iteration, after its
\* candidate has been trained, scored and offered; a candidate is started
\* only when the last reading was below the limit and the grid is not
\* empty; after a reading at or above the limit no candidate is started and
\* _fit returns.
C11_TimeBoxed ==
    [][(pc = "loop" /\ time_limit > 0) =>
          /\ n_parameter_samples = 0
          /\ train_time' # train_time =>
                 /\ num_classifiers' = num_classifiers + 1
                 /\ Len(classifiers') >= 1 \/ max_ensemble_size = 0
          /\ num_classifiers' # num_classifiers =>
                 /\ train_time < time_limit
                 /\ Len(possible_parameters) > 0
                 /\ trained' = trained + 1
          /\ train_time >= time_limit =>
                 /\ num_classifiers' = num_classifiers
                 /\ trained' = trained
                 /\ pc' = "idle"]_vars

\* a time-boxed _fit has returned after three candidates, the last reading
\* at the limit, with tuples left in the grid
C11_Witness ==
    /\ outcome = "fitted"
    /\ time_limit = 60
    /\ train_time = 60
    /\ num_classifiers = 3
    /\ Len(possible_parameters) > 0

\* C12: _individual_train_acc returns the same value, the accuracy or the
\* sentinel, with n_jobs > 1 (whatever order the workers finish in) as
\* with n_jobs <= 1, for every base learner, label vector, train_size and
\* lowest_acc; the parallel call asks for train_size predictions, the
\* sequential one for no more.
C12_SameInBothModes ==
    ret.op = "train_acc" =>
        /\ \A jobs \in JobCounts, order \in Orders(ret.train_size) :
               ret.value = IndividualTrainAcc(jobs, ret.boss, order, ret.ys,
                                              ret.train_size, ret.lowest_acc,
                                              ret.rounding)
        /\ n_jobs > 1 => ret.requested = ret.train_size
        /\ n_jobs <= 1 => ret.requested <= ret.train_size

\* a parallel call whose workers finished in reverse order returned the
\* sentinel where the sequential loop stops after one prediction
C12_Witness ==
    /\ ret.op = "train_acc"
    /\ n_jobs = 2
    /\ ret.train_size = 3
    /\ ret.order = <<2, 1, 0>>
    /\ ret.boss = <<2, 1, 2>>
    /\ ret.ys = <<1, 1, 1>>
    /\ ret.lowest_acc = 3
    /\ ret.value = -3
    /\ RequestedPredictions(1, ret.boss, ret.ys, ret.train_size,
                            ret.lowest_acc, ret.rounding) = 1

\* C16: when _individual_train_acc returns the sentinel, the number of
\* correct leave-one-out predictions over the whole subsample is below
\* required_correct = int(lowest_acc * train_size), so the full accuracy is
\* below lowest_acc; with lowest_acc = 0 it never returns the sentinel; when
\* it does not, it returns correct / train_size over all instances.
C16_SentinelOnlyWhenWorse ==
    ret.op = "train_acc" =>
        LET full == FullAccuracy(ret.boss, ret.ys)
            required == RequiredCorrect(ret.lowest_acc, ret.train_size,
                                        ret.rounding)
        IN /\ ret.value = -ret.train_size =>
                  /\ full < required
                  /\ full < ret.lowest_acc
           /\ ret.lowest_acc = 0 => ret.value # -ret.train_size
           /\ ret.value # -ret.train_size =>
                  /\ ret.value = full
                  /\ ret.requested = ret.train_size

\* a sequential call returned the sentinel after two predictions: one
\* miss was still allowed by the threshold, the second was not
C16_Witness ==
    /\ ret.op = "train_acc"
    /\ n_jobs = 1
    /\ ret.train_size = 3
    /\ ret.lowest_acc = 2
    /\ ret.rounding = 0
    /\ ret.value = -3
    /\ ret.requested = 2
    /\ FullAccuracy(ret.boss, ret.ys) = 1

\* C13: after every _fit that returned, a second _fit on the same object
\* included, class_dictionary maps exactly the label values of the latest
\* training data, in ascending order, onto 0 .. n_classes - 1, one to one.
C13_DictionaryOfLatestLabels ==
    outcome = "fitted" =>
        /\ DOMAIN class_dictionary = Range(y)
        /\ n_classes = Cardinality(Range(y))
        /\ \A v \in DOMAIN class_dictionary :
               class_dictionary[v] = Cardinality({u \in Range(y) : u < v})
        /\ \A u, v \in DOMAIN class_dictionary :
               class_dictionary[u] = class_dictionary[v] => u = v

\* C14: the search loop of _fit ends, in both stop modes: every iteration
\* takes one tuple from the remaining grid, no more iterations are made
\* than the grid holds tuples, on an empty grid the loop stops whatever
\* the budget, and a running _fit eventually returns.
C14_LoopTerminates ==
    /\ [][(pc = "loop" /\ pc' = "loop") =>
              /\ Len(possible_parameters') = Len(possible_parameters) - 1
              /\ num_classifiers' <= GridSize]_vars
    /\ [][(pc = "loop" /\ possible_parameters = <<>>) => pc' = "idle"]_vars
    /\ (pc = "loop") ~> (pc = "idle" /\ outcome = "fitted")

\* a time-boxed _fit has returned on an exhausted grid of 10 tuples, the
\* clock still below the limit
C14_Witness ==
    /\ outcome = "fitted"
    /\ time_limit = 60
    /\ train_time < time_limit
    /\ possible_parameters = <<>>
    /\ num_classifiers = 10

\* the lowest accuracy among the members cs
MinAccuracy(cs) ==
    CHOOSE m \in {cs[p].accuracy : p \in DOMAIN cs} :
        \A p \in DOMAIN cs : m <= cs[p].accuracy

\* the first position of cs that holds the lowest accuracy
FirstMin(cs) ==
    CHOOSE p \in DOMAIN cs :
        /\ cs[p].accuracy = MinAccuracy(cs)
        /\ \A q \in 1 .. p - 1 : cs[q].accuracy > MinAccuracy(cs)

\* C15: whenever an iteration of _fit changes a full ensemble, it
\* overwrites one position, the first one that holds the lowest retained
\* accuracy, member and weight together, and the new member's accuracy is
\* above that lowest accuracy: a candidate that only equals it replaces
\* nothing.
C15_ReplacesFirstMinimum ==
    [][(/\ pc = "loop"
        /\ pc' = "loop"
        /\ Len(classifiers) = max_ensemble_size
        /\ classifiers' # classifiers) =>
          LET p == FirstMin(classifiers)
          IN /\ Len(classifiers') = Len(classifiers)
             /\ \A q \in DOMAIN classifiers \ {p} :
                    /\ classifiers'[q] = classifiers[q]
                    /\ weights'[q] = weights[q]
             /\ classifiers'[p] # classifiers[p]
             /\ classifiers'[p].accuracy > MinAccuracy(classifiers)]_vars

\* both positions of a capacity-2 ensemble have been overwritten, the
\* second time with the lowest accuracy found by the scan, and the two
\* members tie
C15_Witness ==
    /\ pc = "loop"
    /\ max_ensemble_size = 2
    /\ Len(classifiers) = 2
    /\ num_classifiers >= 4
    /\ classifiers[1].parameters \notin {tried[1], tried[2]}
    /\ classifiers[2].parameters \notin {tried[1], tried[2]}
    /\ classifiers[1].accuracy = classifiers[2].accuracy
    /\ lowest_acc_idx = 0

\* C17 as stated: whenever the ensemble is full at the loop test, with
\* max_ensemble_size >= 1, lowest_acc_idx is a position of the ensemble,
\* the member there has accuracy lowest_acc, and lowest_acc is the lowest
\* retained accuracy.
C17_WorstPointer ==
    (pc = "loop" /\ max_ensemble_size >= 1
        /\ Len(classifiers) = max_ensemble_size) =>
        /\ 0 <= lowest_acc_idx
        /\ lowest_acc_idx < Len(classifiers)
        /\ classifiers[lowest_acc_idx + 1].accuracy = lowest_acc
        /\ lowest_acc = MinAccuracy(classifiers)

\* C17 as amended: lowest_acc is the lowest retained accuracy, and
\* lowest_acc_idx is the first position that holds it, or it is -1 when a
\* replacement left every member with accuracy 1.0.
C17_WorstPointerOrNone ==
    (pc = "loop" /\ max_ensemble_size >= 1
        /\ Len(classifiers) = max_ensemble_size) =>
        /\ lowest_acc = MinAccuracy(classifiers)
        /\ \/ lowest_acc_idx + 1 = FirstMin(classifiers)
           \/ /\ lowest_acc_idx = -1
              /\ lowest_acc = subsample_size
              /\ num_classifiers > max_ensemble_size
              /\ \A p \in DOMAIN classifiers :
                     classifiers[p].accuracy = subsample_size

\* a replacement has left both members of a full ensemble with accuracy
\* 1.0, and the grid is not exhausted
C17_Witness ==
    /\ pc = "loop"
    /\ max_ensemble_size = 2
    /\ Len(classifiers) = 2
    /\ lowest_acc_idx = -1
    /\ lowest_acc = subsample_size
    /\ classifiers[1].accuracy = subsample_size
    /\ classifiers[2].accuracy = subsample_size
    /\ Len(possible_parameters) > 0

\* C18: after any _fit call the options n_parameter_samples,
\* max_ensemble_size, min_window, max_win_len_prop and
\* time_limit_in_minutes (and n_jobs, random_state) hold the values given
\* to the constructor.
C18_OptionsKept ==
    (ref.stage \in {"first", "second"} /\ pc = "idle") =>
        Options = ref.options

\* C19: a _fit that passed the window check, with max_ensemble_size >= 1
\* and n_parameter_samples >= 1 or a positive time limit, leaves a
\* non-empty ensemble with weight_sum > 0, and _predict_proba then divides
\* by a non-zero weight sum.
C19_NonEmptyEnsemble ==
    (/\ outcome = "fitted"
     /\ max_ensemble_size >= 1
     /\ n_parameter_samples >= 1 \/ time_limit_in_minutes > 0) =>
        /\ Len(classifiers) >= 1
        /\ WeightLess([pow4 |-> 0, floor |-> 0], weight_sum)
        /\ ret.op = "predict_proba" =>
               ret.row.divisor # [pow4 |-> 0, floor |-> 0]

\* C20: in every state every retained member has an accuracy between 0
\* and 1 that is its full leave-one-out accuracy over its own subsample;
\* none carries the sentinel -1.
C20_NoSentinelRetained ==
    \A p \in DOMAIN classifiers :
        /\ classifiers[p].accuracy >= 0
        /\ classifiers[p].accuracy <= subsample_size
        /\ classifiers[p].accuracy # -subsample_size
        /\ classifiers[p].accuracy =
               Cardinality({k \in DOMAIN classifiers[p].subsample :
                   classifiers[p].train_preds[k] =
                       y[classifiers[p].subsample[k] + 1]})

\* a capacity-1 ensemble whose member of accuracy 1/2 was replaced by a
\* candidate that was scored against that threshold, and a third
\* candidate has been scored against 1.0 since
C20_Witness ==
    /\ pc = "loop"
    /\ max_ensemble_size = 1
    /\ Len(classifiers) = 1
    /\ num_classifiers >= 3
    /\ classifiers[1].parameters = tried[2]
    /\ classifiers[1].accuracy = 2
    /\ subsample_size = 2
    /\ discarded_max = 1

====
